---- MODULE Spec2Model ----
(***************************************************************************)
(* A model of src/lib/rrdFile.js: the RRD archive reader (RRDHeader,       *)
(* RRDDS, RRDRRA, RRDFile) over a BinaryFile-compatible byte source.       *)
(*                                                                         *)
(* Strings are sequences of character codes (R = 82, D = 68, "0" = 48).    *)
(* A double is a pair <<mantissa, exponent>>; only equality with the       *)
(* alignment sentinel 8.642135e+130 and the loss of low mantissa bits of   *)
(* the fast read matter to the reader.                                     *)
(***************************************************************************)
EXTENDS Integers, Sequences, FiniteSets, TLC

VARIABLES
  rrd_data,   \* the byte source handed to RRDFile (never written by the reader)
  pc,         \* position inside the RRDFile/RRDHeader constructors
  steps,      \* the initialisation functions that have run, in order
  hdr,        \* the fields of the RRDHeader object (this.*)
  thrown,     \* the exception thrown by the constructor, if any
  dsView,     \* an RRDDS object held by the caller
  rraView,    \* an RRDRRA object held by the caller (its closure variables)
  last,       \* the most recent user call: arguments, reads made, outcome
  conv,       \* a Flot conversion function in progress: its call sites so far
  sel,        \* an rrdFlotSelection object and the calls made on it
  ms          \* rrdRRAMultiStackFlotObj in progress: arguments and locals

vars == <<rrd_data, pc, steps, hdr, thrown, dsView, rraView, last, conv, sel, ms>>

\* ------------------------------------------------------------------------
\* Bounds of the generated byte sources

\* largest data-source count and archive count stored in a generated file
MaxCnt == 2
\* largest row count stored for the first archive (archive i stores row0 + i)
MaxRows == 2

\* JavaScript's undefined, for numeric object fields not assigned yet
Undefined == -1

Min(a, b) == IF a < b THEN a ELSE b

\* ------------------------------------------------------------------------
\* The byte source (BinaryFile interface)

\* "RRD", "0003", "0004" and the sentinel double 8.642135e+130
StrRRD == <<82, 82, 68>>
Str0003 == <<48, 48, 48, 51>>
Str0004 == <<48, 48, 48, 52>>
Sentinel == <<8642135, 130>>

\* Section starts of the file image, as RRDtool lays its structs out for the
\* word size bf.layout (rrd_format.h: stat_head_t, ds_def_t, rra_def_t,
\* live_head_t, pdp_prep_t, cdp_prep_t, rra_ptr_t, then the rows)
ImgDsDef(bf) == IF bf.layout = 32 THEN 112 ELSE 128
ImgRraDef(bf) == ImgDsDef(bf) + 120 * bf.ds_cnt
ImgRraDefSize(bf) == IF bf.layout = 32 THEN 108 ELSE 120
ImgLiveHead(bf) == ImgRraDef(bf) + ImgRraDefSize(bf) * bf.rra_cnt
ImgPdpPrep(bf) == ImgLiveHead(bf) + (IF bf.layout = 32 THEN 8 ELSE 16)
ImgCdpPrep(bf) == ImgPdpPrep(bf) + 112 * bf.ds_cnt
ImgRraPtr(bf) == ImgCdpPrep(bf) + 80 * bf.ds_cnt * bf.rra_cnt
ImgRraPtrSize(bf) == IF bf.layout = 32 THEN 4 ELSE 8
ImgRows(bf) == ImgRraPtr(bf) + ImgRraPtrSize(bf) * bf.rra_cnt

\* the counts stored for archive i of the image
ImgRowCnt(bf, i) == bf.row0 + i
ImgCurRow(bf, i) == bf.cur0
ImgPdpCnt(bf, i) == i + 1

\* the bytes stored at offset idx, for the string fields of the image
ImgBytes(bf, idx) ==
  IF idx = 0 THEN bf.magic
  ELSE IF idx = 4 THEN bf.version
  ELSE IF \E i \in 0..(bf.ds_cnt - 1) : idx = ImgDsDef(bf) + 120 * i
    THEN <<100, 115, 48 + (idx - ImgDsDef(bf)) \div 120, 0>>
  ELSE IF \E i \in 0..(bf.ds_cnt - 1) : idx = ImgDsDef(bf) + 120 * i + 20
    THEN <<71, 65, 85, 71, 69, 0>>
  ELSE IF \E i \in 0..(bf.rra_cnt - 1) : idx = ImgRraDef(bf) + ImgRraDefSize(bf) * i
    THEN <<65, 86, 69, 82, 65, 71, 69, 0>>
  ELSE <<0>>

\* getCStringAt(idx,maxsize): at most maxsize characters, up to the first 0
getCStringAt(bf, idx, maxsize) ==
  LET bytes == ImgBytes(bf, idx)
      n == Min(maxsize, Len(bytes))
      zeros == {i \in 1..n : bytes[i] = 0}
      k == IF zeros = {} THEN n ELSE (CHOOSE i \in zeros : \A j \in zeros : i <= j) - 1
  IN  SubSeq(bytes, 1, k)

\* getLongAt(idx): the 32 bit unsigned integer stored at offset idx
getLongAt(bf, idx) ==
  LET wide == (bf.layout = 64)
  IN
  IF idx = (IF wide THEN 24 ELSE 20) THEN bf.ds_cnt
  ELSE IF idx = (IF wide THEN 32 ELSE 24) THEN bf.rra_cnt
  ELSE IF idx = (IF wide THEN 40 ELSE 28) THEN bf.pdp_step
  ELSE IF \E i \in 0..(bf.rra_cnt - 1) :
            idx = ImgRraDef(bf) + ImgRraDefSize(bf) * i + (IF wide THEN 24 ELSE 20)
    THEN ImgRowCnt(bf, (idx - ImgRraDef(bf)) \div ImgRraDefSize(bf))
  ELSE IF \E i \in 0..(bf.rra_cnt - 1) :
            idx = ImgRraDef(bf) + ImgRraDefSize(bf) * i + (IF wide THEN 32 ELSE 24)
    THEN ImgPdpCnt(bf, (idx - ImgRraDef(bf)) \div ImgRraDefSize(bf))
  ELSE IF idx = ImgLiveHead(bf) THEN bf.last_up
  ELSE IF \E i \in 0..(bf.rra_cnt - 1) : idx = ImgRraPtr(bf) + ImgRraPtrSize(bf) * i
    THEN ImgCurRow(bf, (idx - ImgRraPtr(bf)) \div ImgRraPtrSize(bf))
  ELSE 0

\* getDoubleAt(idx): the double stored at offset idx.  The sentinel sits where
\* the image has it; every other offset holds a value of its own.
getDoubleAt(bf, idx) ==
  IF idx = bf.sentinel THEN Sentinel ELSE <<idx * 16 + 5, 0>>

\* getFastDoubleAt(idx): the same double from its high-order 4 bytes only,
\* the low mantissa bits lost
getFastDoubleAt(bf, idx) ==
  LET d == getDoubleAt(bf, idx) IN <<(d[1] \div 16) * 16, d[2]>>

\* ------------------------------------------------------------------------
\* The byte sources the reader is run on

Magics == {<<82, 82, 68, 0>>, <<82, 82, 68, 88>>, <<82, 82, 88, 0>>}
Versions ==
  {<<48, 48, 48, 51, 0>>, <<48, 48, 48, 52, 0>>, <<48, 48, 48, 49, 0>>,
   <<48, 48, 48, 51, 53>>}
\* offset of the sentinel double: 12 (32 bit files), 16 (64 bit files), 0 = absent
SentinelOffsets == {12, 16, 0}

\* a file as RRDtool writes it on a 32 or a 64 bit machine, with every
\* stored count drawn from the bounds; cur0 may exceed the row count
\* (nothing in the reader validates the archive pointers)
WrittenFiles ==
  {[magic |-> <<82, 82, 68, 0>>, version |-> <<48, 48, 48, 51, 0>>,
    sentinel |-> IF l = 32 THEN 12 ELSE 16,
    layout |-> l, ds_cnt |-> d, rra_cnt |-> r, pdp_step |-> 300, last_up |-> 1200,
    row0 |-> r0, cur0 |-> c0] :
      l \in {32, 64},
      d \in 0..MaxCnt, r \in 0..MaxCnt, r0 \in 0..MaxRows, c0 \in 0..(MaxRows + 1)}

\* buffers with any magic, version and sentinel position, over one body;
\* a sentinel at 16 overlaps the 32 bit counter at 20, so those keep layout 64
DamagedFiles ==
  {[magic |-> m, version |-> v, sentinel |-> s,
    layout |-> l, ds_cnt |-> 1, rra_cnt |-> MaxCnt, pdp_step |-> 300, last_up |-> 1200,
    row0 |-> 1, cur0 |-> 0] :
      m \in Magics, v \in Versions, s \in SentinelOffsets,
      l \in {64}}

Inputs == WrittenFiles \cup DamagedFiles

\* ------------------------------------------------------------------------
\* RRDHeader: initialisation

NewHeader ==
  [rrd_version |-> <<>>, rrd_align |-> Undefined,
   ds_cnt |-> Undefined, rra_cnt |-> Undefined, pdp_step |-> Undefined,
   top_header_size |-> Undefined,
   ds_def_idx |-> Undefined, ds_el_size |-> Undefined,
   rra_def_idx |-> Undefined, row_cnt_idx |-> Undefined, rra_def_el_size |-> Undefined,
   live_head_idx |-> Undefined, live_head_size |-> Undefined,
   pdp_prep_idx |-> Undefined, pdp_prep_el_size |-> Undefined,
   cdp_prep_idx |-> Undefined, cdp_prep_el_size |-> Undefined,
   rra_ptr_idx |-> Undefined, rra_ptr_el_size |-> Undefined,
   header_size |-> Undefined,
   rra_def_row_cnts |-> <<>>, rra_def_row_cnt_sums |-> <<>>]

NoException == [name |-> "", message |-> "", version |-> <<>>]
InvalidRRD(msg, ver) == [name |-> "Invalid RRD", message |-> msg, version |-> ver]


\* validate_rrd with the version tested before the magic
validate_rrd_VersionFirst(bf) ==
  LET magic == getCStringAt(bf, 0, 4)
      version == getCStringAt(bf, 4, 5)
  IN
  IF (version # Str0003) /\ (version # Str0004)
    THEN [ok |-> FALSE, thrown |-> InvalidRRD("Unsupported RRD version", version),
          rrd_version |-> version, rrd_align |-> Undefined, reads |-> <<4>>]
  ELSE IF magic # StrRRD
    THEN [ok |-> FALSE, thrown |-> InvalidRRD("Wrong magic id.", <<>>),
          rrd_version |-> version, rrd_align |-> Undefined, reads |-> <<4, 0>>]
  ELSE IF getDoubleAt(bf, 12) = Sentinel
    THEN [ok |-> TRUE, thrown |-> NoException,
          rrd_version |-> version, rrd_align |-> 32, reads |-> <<4, 0, 12>>]
  ELSE IF getDoubleAt(bf, 16) = Sentinel
    THEN [ok |-> TRUE, thrown |-> NoException,
          rrd_version |-> version, rrd_align |-> 64, reads |-> <<4, 0, 12, 16>>]
  ELSE [ok |-> FALSE, thrown |-> InvalidRRD("Unsupported platform.", <<>>),
        rrd_version |-> version, rrd_align |-> Undefined, reads |-> <<4, 0, 12, 16>>]

\* validate_rrd: magic, then version, then alignment; the first failure throws
validate_rrd(bf) ==
  LET magic == getCStringAt(bf, 0, 4)
      version == getCStringAt(bf, 4, 5)
  IN
  IF magic # StrRRD
    THEN [ok |-> FALSE, thrown |-> InvalidRRD("Wrong magic id.", <<>>),
          rrd_version |-> <<>>, rrd_align |-> Undefined, reads |-> <<0>>]
  ELSE IF (version # Str0003) /\ (version # Str0004)
    THEN [ok |-> FALSE, thrown |-> InvalidRRD("Unsupported RRD version", version),
          rrd_version |-> version, rrd_align |-> Undefined, reads |-> <<0, 4>>]
  ELSE IF getDoubleAt(bf, 12) = Sentinel
    THEN [ok |-> TRUE, thrown |-> NoException,
          rrd_version |-> version, rrd_align |-> 32, reads |-> <<0, 4, 12>>]
  ELSE IF getDoubleAt(bf, 16) = Sentinel
    THEN [ok |-> TRUE, thrown |-> NoException,
          rrd_version |-> version, rrd_align |-> 64, reads |-> <<0, 4, 12, 16>>]
  ELSE [ok |-> FALSE, thrown |-> InvalidRRD("Unsupported platform.", <<>>),
        rrd_version |-> version, rrd_align |-> Undefined, reads |-> <<0, 4, 12, 16>>]

\* load_header reading the 32 bit offsets whatever the alignment
load_header_Always32(bf, h) ==
  [hdr |-> [h EXCEPT !.ds_cnt = getLongAt(bf, 20),
                     !.rra_cnt = getLongAt(bf, 24),
                     !.pdp_step = getLongAt(bf, 28),
                     !.top_header_size = IF h.rrd_align = 32 THEN 112 ELSE 128],
   reads |-> <<20, 24, 28>>]

\* load_header: the three counters, at offsets chosen by this.rrd_align
load_header(bf, h) ==
  IF h.rrd_align = 32
    THEN [hdr |-> [h EXCEPT !.ds_cnt = getLongAt(bf, 20),
                            !.rra_cnt = getLongAt(bf, 24),
                            !.pdp_step = getLongAt(bf, 28),
                            !.top_header_size = 112],
          reads |-> <<20, 24, 28>>]
    ELSE [hdr |-> [h EXCEPT !.ds_cnt = getLongAt(bf, 24),
                            !.rra_cnt = getLongAt(bf, 32),
                            !.pdp_step = getLongAt(bf, 40),
                            !.top_header_size = 128],
          reads |-> <<24, 32, 40>>]

\* calc_idxs sizing the cdp_prep section per data source only,
\* not per data source and archive
calc_idxs_CdpPerDs(h) ==
  LET ds_def_idx == h.top_header_size
      rra_def_idx == ds_def_idx + 120 * h.ds_cnt
      rra_def_el_size == IF h.rrd_align = 32 THEN 108 ELSE 120
      live_head_idx == rra_def_idx + rra_def_el_size * h.rra_cnt
      live_head_size == IF h.rrd_align = 32 THEN 8 ELSE 16
      pdp_prep_idx == live_head_idx + live_head_size
      cdp_prep_idx == pdp_prep_idx + 112 * h.ds_cnt
      rra_ptr_idx == cdp_prep_idx + 80 * h.ds_cnt
      rra_ptr_el_size == IF h.rrd_align = 32 THEN 4 ELSE 8
  IN  [h EXCEPT !.ds_def_idx = ds_def_idx, !.ds_el_size = 120,
                !.rra_def_idx = rra_def_idx, !.rra_def_el_size = rra_def_el_size,
                !.row_cnt_idx = IF h.rrd_align = 32 THEN 20 ELSE 24,
                !.live_head_idx = live_head_idx, !.live_head_size = live_head_size,
                !.pdp_prep_idx = pdp_prep_idx, !.pdp_prep_el_size = 112,
                !.cdp_prep_idx = cdp_prep_idx, !.cdp_prep_el_size = 80,
                !.rra_ptr_idx = rra_ptr_idx, !.rra_ptr_el_size = rra_ptr_el_size,
                !.header_size = rra_ptr_idx + rra_ptr_el_size * h.rra_cnt]

\* calc_idxs: section offsets, each from the one before; no reads
calc_idxs(h) ==
  LET ds_def_idx == h.top_header_size
      ds_el_size == 120
      rra_def_idx == ds_def_idx + ds_el_size * h.ds_cnt
      rra_def_el_size == IF h.rrd_align = 32 THEN 108 ELSE 120
      row_cnt_idx == IF h.rrd_align = 32 THEN 20 ELSE 24
      live_head_idx == rra_def_idx + rra_def_el_size * h.rra_cnt
      live_head_size == IF h.rrd_align = 32 THEN 8 ELSE 16
      pdp_prep_idx == live_head_idx + live_head_size
      pdp_prep_el_size == 112
      cdp_prep_idx == pdp_prep_idx + pdp_prep_el_size * h.ds_cnt
      cdp_prep_el_size == 80
      rra_ptr_idx == cdp_prep_idx + cdp_prep_el_size * h.ds_cnt * h.rra_cnt
      rra_ptr_el_size == IF h.rrd_align = 32 THEN 4 ELSE 8
      header_size == rra_ptr_idx + rra_ptr_el_size * h.rra_cnt
  IN  [h EXCEPT !.ds_def_idx = ds_def_idx, !.ds_el_size = ds_el_size,
                !.rra_def_idx = rra_def_idx, !.rra_def_el_size = rra_def_el_size,
                !.row_cnt_idx = row_cnt_idx,
                !.live_head_idx = live_head_idx, !.live_head_size = live_head_size,
                !.pdp_prep_idx = pdp_prep_idx, !.pdp_prep_el_size = pdp_prep_el_size,
                !.cdp_prep_idx = cdp_prep_idx, !.cdp_prep_el_size = cdp_prep_el_size,
                !.rra_ptr_idx = rra_ptr_idx, !.rra_ptr_el_size = rra_ptr_el_size,
                !.header_size = header_size]

\* load_row_cnts whose running sum counts the archive itself
load_row_cnts_SumIncludesSelf(bf, h) ==
  LET at(i) == h.rra_def_idx + i * h.rra_def_el_size + h.row_cnt_idx
      cnts == [k \in 1..h.rra_cnt |-> getLongAt(bf, at(k - 1))]
      sums[k \in 1..h.rra_cnt] == IF k = 1 THEN 0 ELSE sums[k - 1] + cnts[k]
  IN  [hdr |-> [h EXCEPT !.rra_def_row_cnts = cnts, !.rra_def_row_cnt_sums = sums],
       reads |-> [k \in 1..h.rra_cnt |-> at(k - 1)]]

\* load_row_cnts: the row count of every archive and the rows before it.
\* JavaScript arrays start at 0, the sequences here at 1: entry i+1 is a[i].
load_row_cnts(bf, h) ==
  LET at(i) == h.rra_def_idx + i * h.rra_def_el_size + h.row_cnt_idx
      cnts == [k \in 1..h.rra_cnt |-> getLongAt(bf, at(k - 1))]
      sums[k \in 1..h.rra_cnt] == IF k = 1 THEN 0 ELSE sums[k - 1] + cnts[k - 1]
  IN  [hdr |-> [h EXCEPT !.rra_def_row_cnts = cnts, !.rra_def_row_cnt_sums = sums],
       reads |-> [k \in 1..h.rra_cnt |-> at(k - 1)]]

\* ------------------------------------------------------------------------
\* Results of user calls

NoError == [name |-> "", what |-> "", value |-> 0, lo |-> 0, hi |-> 0]
\* RangeError(what+" idx ("+value+") out of range [0-"+hi+").")
RangeError(what, value, hi) ==
  [name |-> "RangeError", what |-> what, value |-> value, lo |-> 0, hi |-> hi]

NoDS == [live |-> FALSE, rrd_data_idx |-> Undefined]
NoRRA ==
  [live |-> FALSE, rrd_align |-> Undefined, rra_def_idx |-> Undefined,
   row_cnt |-> Undefined, ds_cnt |-> Undefined, pdp_step |-> Undefined,
   row_size |-> Undefined, base_rrd_db_idx |-> Undefined, cur_row |-> Undefined]

\* the record of one call: op(a, b) read the byte source at `reads`, then
\* returned val (ok) or threw err (~ok); real_row_idx is calc_idx's local
Call(op, a, b, ok, reads, val, err, row) ==
  [op |-> op, a |-> a, b |-> b, ok |-> ok, reads |-> reads, val |-> val,
   err |-> err, real_row_idx |-> row]
Returned(op, a, b, reads, val) == Call(op, a, b, TRUE, reads, val, NoError, Undefined)
Threw(op, a, b, err) == Call(op, a, b, FALSE, <<>>, <<>>, err, Undefined)

\* ------------------------------------------------------------------------
\* RRDDS

\* new RRDDS(rrd_data, rrd_data_idx)
RRDDS(rrd_data_idx) == [live |-> TRUE, rrd_data_idx |-> rrd_data_idx]

\* RRDHeader.getDS(idx)
getDS(h, idx) ==
  IF (idx >= 0) /\ (idx < h.ds_cnt)
    THEN [ok |-> TRUE, view |-> RRDDS(h.ds_def_idx + h.ds_el_size * idx), err |-> NoError]
    ELSE [ok |-> FALSE, view |-> NoDS, err |-> RangeError("DS", idx, h.ds_cnt)]

\* ------------------------------------------------------------------------
\* RRDRRA

\* the constructor placing the archive at a count of rows, not of bytes
RRDRRA_BaseInRows(bf, rrd_align, rra_def_idx, rra_ptr_idx, header_size, row_cnt, prev_row_cnts, ds_cnt, pdp_step) ==
  [live |-> TRUE, rrd_align |-> rrd_align, rra_def_idx |-> rra_def_idx,
   row_cnt |-> row_cnt, ds_cnt |-> ds_cnt, pdp_step |-> pdp_step,
   row_size |-> ds_cnt * 8,
   base_rrd_db_idx |-> header_size + prev_row_cnts,
   cur_row |-> getLongAt(bf, rra_ptr_idx)]

\* the constructor: row_size, base_rrd_db_idx and cur_row are its locals,
\* cur_row read from the byte source at once
RRDRRA(bf, rrd_align, rra_def_idx, rra_ptr_idx, header_size, row_cnt, prev_row_cnts, ds_cnt, pdp_step) ==
  [live |-> TRUE, rrd_align |-> rrd_align, rra_def_idx |-> rra_def_idx,
   row_cnt |-> row_cnt, ds_cnt |-> ds_cnt, pdp_step |-> pdp_step,
   row_size |-> ds_cnt * 8,
   base_rrd_db_idx |-> header_size + prev_row_cnts * (ds_cnt * 8),
   cur_row |-> getLongAt(bf, rra_ptr_idx)]

\* calc_idx with the upper bound of the data-source test off by one
calc_idx_DsUpTo(v, row_idx, ds_idx) ==
  IF (row_idx >= 0) /\ (row_idx < v.row_cnt)
    THEN IF (ds_idx >= 0) /\ (ds_idx <= v.ds_cnt)
      THEN LET first == row_idx + v.cur_row + 1
               real_row_idx == IF first >= v.row_cnt THEN first - v.row_cnt ELSE first
           IN  [ok |-> TRUE, idx |-> v.row_size * real_row_idx + ds_idx * 8,
                real_row_idx |-> real_row_idx, err |-> NoError]
      ELSE [ok |-> FALSE, idx |-> Undefined, real_row_idx |-> Undefined,
            err |-> RangeError("DS", row_idx, v.ds_cnt)]
    ELSE [ok |-> FALSE, idx |-> Undefined, real_row_idx |-> Undefined,
          err |-> RangeError("Row", row_idx, v.row_cnt)]

\* calc_idx(row_idx, ds_idx), a closure over the view v
calc_idx(v, row_idx, ds_idx) ==
  IF (row_idx >= 0) /\ (row_idx < v.row_cnt)
    THEN IF (ds_idx >= 0) /\ (ds_idx < v.ds_cnt)
      THEN LET first == row_idx + v.cur_row + 1
               real_row_idx == IF first >= v.row_cnt THEN first - v.row_cnt ELSE first
           IN  [ok |-> TRUE, idx |-> v.row_size * real_row_idx + ds_idx * 8,
                real_row_idx |-> real_row_idx, err |-> NoError]
      ELSE [ok |-> FALSE, idx |-> Undefined, real_row_idx |-> Undefined,
            err |-> RangeError("DS", row_idx, v.ds_cnt)]
    ELSE [ok |-> FALSE, idx |-> Undefined, real_row_idx |-> Undefined,
          err |-> RangeError("Row", row_idx, v.row_cnt)]

\* RRDFile.getRRA(idx)
getRRA(bf, h, idx) ==
  IF (idx >= 0) /\ (idx < h.rra_cnt)
    THEN [ok |-> TRUE,
          view |-> RRDRRA(bf, h.rrd_align,
                          h.rra_def_idx + idx * h.rra_def_el_size,
                          h.rra_ptr_idx + idx * h.rra_ptr_el_size,
                          h.header_size,
                          h.rra_def_row_cnts[idx + 1], h.rra_def_row_cnt_sums[idx + 1],
                          h.ds_cnt, h.pdp_step),
          reads |-> <<h.rra_ptr_idx + idx * h.rra_ptr_el_size>>,
          err |-> NoError]
    ELSE [ok |-> FALSE, view |-> NoRRA, reads |-> <<>>,
          err |-> RangeError("RRA", idx, h.rra_cnt)]


\* ------------------------------------------------------------------------
\* The state machine

NoCall == Call("", 0, 0, TRUE, <<>>, <<>>, NoError, Undefined)

\* JavaScript's null and undefined where a number may stand instead: the empty
\* sequence, a number n being <<n>>
Null == <<>>

\* no Flot conversion function has been called
NoConv ==
  [fn |-> "", ds_id |-> 0, rra_idx |-> 0, at |-> 0, status |-> "idle",
   kind |-> "", method |-> "", line |-> 0]

\* new rrdFlotSelection()
rrdFlotSelection == [selection_min |-> Null, selection_max |-> Null]

\* the selection object together with the last call that changed it
\* (called, ranges) and the last value a query returned (ret)
NewSel ==
  [obj |-> rrdFlotSelection, called |-> "new",
   ranges |-> [xaxis |-> [from |-> Null, to |-> Null]],
   ret |-> [op |-> "", val |-> FALSE]]

\* rrdRRAMultiStackFlotObj has not been called
NoStack == [pc |-> "idle"]

Init ==
  /\ rrd_data \in Inputs
  /\ pc = "new"
  /\ steps = <<>>
  /\ hdr = NewHeader
  /\ thrown = NoException
  /\ dsView = NoDS
  /\ rraView = NoRRA
  /\ last = NoCall
  /\ conv = NoConv
  /\ sel = NewSel
  /\ ms = NoStack

\* ValidateRrd with the exception swallowed: construction goes on
ValidateRrd_Continues ==
  /\ pc = "new"
  /\ LET r == validate_rrd(rrd_data)
     IN  /\ hdr' = [hdr EXCEPT !.rrd_version = r.rrd_version, !.rrd_align = r.rrd_align]
         /\ thrown' = r.thrown
         /\ last' = Call("validate_rrd", 0, 0, r.ok, r.reads, <<>>, NoError, Undefined)
  /\ pc' = "validated"
  /\ steps' = Append(steps, "validate_rrd")
  /\ UNCHANGED <<rrd_data, dsView, rraView, conv, sel, ms>>

\* new RRDFile(bf) -> new RRDHeader(rrd_data) -> this.validate_rrd()
ValidateRrd ==
  /\ pc = "new"
  /\ LET r == validate_rrd(rrd_data)
     IN  /\ hdr' = [hdr EXCEPT !.rrd_version = r.rrd_version, !.rrd_align = r.rrd_align]
         /\ thrown' = r.thrown
         /\ pc' = IF r.ok THEN "validated" ELSE "failed"
         /\ last' = Call("validate_rrd", 0, 0, r.ok, r.reads, <<>>, NoError, Undefined)
  /\ steps' = Append(steps, "validate_rrd")
  /\ UNCHANGED <<rrd_data, dsView, rraView, conv, sel, ms>>

\* this.load_header()
LoadHeader ==
  /\ pc = "validated"
  /\ LET r == load_header(rrd_data, hdr)
     IN  /\ hdr' = r.hdr
         /\ last' = Returned("load_header", 0, 0, r.reads, <<>>)
  /\ pc' = "loaded"
  /\ steps' = Append(steps, "load_header")
  /\ UNCHANGED <<rrd_data, thrown, dsView, rraView, conv, sel, ms>>

\* this.calc_idxs()
CalcIdxs ==
  /\ pc = "loaded"
  /\ hdr' = calc_idxs(hdr)
  /\ last' = Returned("calc_idxs", 0, 0, <<>>, <<>>)
  /\ pc' = "indexed"
  /\ steps' = Append(steps, "calc_idxs")
  /\ UNCHANGED <<rrd_data, thrown, dsView, rraView, conv, sel, ms>>

\* back in RRDFile: this.rrd_header.load_row_cnts(); then the user functions
\* are attached and the constructor returns
LoadRowCnts ==
  /\ pc = "indexed"
  /\ LET r == load_row_cnts(rrd_data, hdr)
     IN  /\ hdr' = r.hdr
         /\ last' = Returned("load_row_cnts", 0, 0, r.reads, <<>>)
  /\ pc' = "ready"
  /\ steps' = Append(steps, "load_row_cnts")
  /\ UNCHANGED <<rrd_data, thrown, dsView, rraView, conv, sel, ms>>

Frame == UNCHANGED <<rrd_data, pc, steps, hdr, thrown, conv, sel, ms>>

\* RRDFile.getStep()
GetStep ==
  /\ pc = "ready"
  /\ last' = Returned("getStep", 0, 0, <<>>, <<hdr.pdp_step>>)
  /\ UNCHANGED <<dsView, rraView>> /\ Frame

\* RRDFile.getLastUpdate()
GetLastUpdate ==
  /\ pc = "ready"
  /\ last' = Returned("getLastUpdate", 0, 0, <<hdr.live_head_idx>>,
                      <<getLongAt(rrd_data, hdr.live_head_idx)>>)
  /\ UNCHANGED <<dsView, rraView>> /\ Frame

\* RRDFile.getNrDSs()
GetNrDSs ==
  /\ pc = "ready"
  /\ last' = Returned("getNrDSs", 0, 0, <<>>, <<hdr.ds_cnt>>)
  /\ UNCHANGED <<dsView, rraView>> /\ Frame

\* RRDFile.getNrRRAs()
GetNrRRAs ==
  /\ pc = "ready"
  /\ last' = Returned("getNrRRAs", 0, 0, <<>>, <<hdr.rra_cnt>>)
  /\ UNCHANGED <<dsView, rraView>> /\ Frame

\* RRDFile.getDS(idx); the caller keeps the view returned
GetDS ==
  /\ pc = "ready"
  /\ \E idx \in -1..(hdr.ds_cnt + 1) :
       LET r == getDS(hdr, idx)
       IN  /\ dsView' = IF r.ok THEN r.view ELSE dsView
           /\ last' = IF r.ok THEN Returned("getDS", idx, 0, <<>>, <<>>)
                              ELSE Threw("getDS", idx, 0, r.err)
  /\ UNCHANGED rraView /\ Frame

\* GetRRA where a failed lookup also clears the view obtained earlier
GetRRA_DropsView ==
  /\ pc = "ready"
  /\ \E idx \in -1..(hdr.rra_cnt + 1) :
       LET r == getRRA(rrd_data, hdr, idx)
       IN  /\ rraView' = r.view
           /\ last' = IF r.ok THEN Returned("getRRA", idx, 0, r.reads, <<>>)
                              ELSE Threw("getRRA", idx, 0, r.err)
  /\ UNCHANGED dsView /\ Frame

\* RRDFile.getRRA(idx); the caller keeps the view returned
GetRRA ==
  /\ pc = "ready"
  /\ \E idx \in -1..(hdr.rra_cnt + 1) :
       LET r == getRRA(rrd_data, hdr, idx)
       IN  /\ rraView' = IF r.ok THEN r.view ELSE rraView
           /\ last' = IF r.ok THEN Returned("getRRA", idx, 0, r.reads, <<>>)
                              ELSE Threw("getRRA", idx, 0, r.err)
  /\ UNCHANGED dsView /\ Frame

\* RRDDS.getName()
DsGetName ==
  /\ dsView.live
  /\ last' = Returned("DS.getName", 0, 0, <<dsView.rrd_data_idx>>,
                      getCStringAt(rrd_data, dsView.rrd_data_idx, 20))
  /\ UNCHANGED <<dsView, rraView>> /\ Frame

\* RRDDS.getType()
DsGetType ==
  /\ dsView.live
  /\ last' = Returned("DS.getType", 0, 0, <<dsView.rrd_data_idx + 20>>,
                      getCStringAt(rrd_data, dsView.rrd_data_idx + 20, 20))
  /\ UNCHANGED <<dsView, rraView>> /\ Frame

\* RRDDS.getMin()
DsGetMin ==
  /\ dsView.live
  /\ last' = Returned("DS.getMin", 0, 0, <<dsView.rrd_data_idx + 48>>,
                      getDoubleAt(rrd_data, dsView.rrd_data_idx + 48))
  /\ UNCHANGED <<dsView, rraView>> /\ Frame

\* RRDDS.getMax()
DsGetMax ==
  /\ dsView.live
  /\ last' = Returned("DS.getMax", 0, 0, <<dsView.rrd_data_idx + 56>>,
                      getDoubleAt(rrd_data, dsView.rrd_data_idx + 56))
  /\ UNCHANGED <<dsView, rraView>> /\ Frame

\* RRDRRA.getName()
RraGetName ==
  /\ rraView.live
  /\ last' = Returned("RRA.getName", 0, 0, <<rraView.rra_def_idx>>,
                      getCStringAt(rrd_data, rraView.rra_def_idx, 20))
  /\ UNCHANGED <<dsView, rraView>> /\ Frame

\* the offset getPdpPerRow reads at
PdpPerRowIdx(v) == IF v.rrd_align = 32 THEN v.rra_def_idx + 24 ELSE v.rra_def_idx + 32

\* RRDRRA.getPdpPerRow()
RraGetPdpPerRow ==
  /\ rraView.live
  /\ last' = Returned("RRA.getPdpPerRow", 0, 0, <<PdpPerRowIdx(rraView)>>,
                      <<getLongAt(rrd_data, PdpPerRowIdx(rraView))>>)
  /\ UNCHANGED <<dsView, rraView>> /\ Frame

\* RRDRRA.getSecsPerRow()
RraGetSecsPerRow ==
  /\ rraView.live
  /\ last' = Returned("RRA.getSecsPerRow", 0, 0, <<PdpPerRowIdx(rraView)>>,
                      <<rraView.pdp_step * getLongAt(rrd_data, PdpPerRowIdx(rraView))>>)
  /\ UNCHANGED <<dsView, rraView>> /\ Frame

\* RRDRRA.getNrRows()
RraGetNrRows ==
  /\ rraView.live
  /\ last' = Returned("RRA.getNrRows", 0, 0, <<>>, <<rraView.row_cnt>>)
  /\ UNCHANGED <<dsView, rraView>> /\ Frame

\* RRDRRA.getNrDSs()
RraGetNrDSs ==
  /\ rraView.live
  /\ last' = Returned("RRA.getNrDSs", 0, 0, <<>>, <<rraView.ds_cnt>>)
  /\ UNCHANGED <<dsView, rraView>> /\ Frame

\* the outcome of getEl / getElFast on view v: calc_idx runs first, and the
\* byte source is read only with the offset it returned
getEl(bf, v, row_idx, ds_idx) ==
  LET c == calc_idx(v, row_idx, ds_idx)
  IN  IF c.ok
        THEN Call("getEl", row_idx, ds_idx, TRUE, <<v.base_rrd_db_idx + c.idx>>,
                  getDoubleAt(bf, v.base_rrd_db_idx + c.idx), NoError, c.real_row_idx)
        ELSE Threw("getEl", row_idx, ds_idx, c.err)

getElFast(bf, v, row_idx, ds_idx) ==
  LET c == calc_idx(v, row_idx, ds_idx)
  IN  IF c.ok
        THEN Call("getElFast", row_idx, ds_idx, TRUE, <<v.base_rrd_db_idx + c.idx>>,
                  getFastDoubleAt(bf, v.base_rrd_db_idx + c.idx), NoError, c.real_row_idx)
        ELSE Threw("getElFast", row_idx, ds_idx, c.err)

\* RRDRRA.getEl(row_idx, ds_idx)
GetEl ==
  /\ rraView.live
  /\ \E row_idx \in -1..rraView.row_cnt, ds_idx \in -1..rraView.ds_cnt :
       last' = getEl(rrd_data, rraView, row_idx, ds_idx)
  /\ UNCHANGED <<dsView, rraView>> /\ Frame

\* RRDRRA.getElFast(row_idx, ds_idx)
GetElFast ==
  /\ rraView.live
  /\ \E row_idx \in -1..rraView.row_cnt, ds_idx \in -1..rraView.ds_cnt :
       last' = getElFast(rrd_data, rraView, row_idx, ds_idx)
  /\ UNCHANGED <<dsView, rraView>> /\ Frame

Next ==
  \/ ValidateRrd \/ LoadHeader \/ CalcIdxs \/ LoadRowCnts
  \/ GetStep \/ GetLastUpdate \/ GetNrDSs \/ GetNrRRAs
  \/ GetDS \/ GetRRA
  \/ DsGetName \/ DsGetType \/ DsGetMin \/ DsGetMax
  \/ RraGetName \/ RraGetPdpPerRow \/ RraGetSecsPerRow \/ RraGetNrRows \/ RraGetNrDSs
  \/ GetEl \/ GetElFast

Spec == Init /\ [][Next]_vars


\* ------------------------------------------------------------------------
\* The Flot conversion functions and the operations they invoke

\* the functions each object provides
RRDFileMethods == {"getStep", "getLastUpdate", "getNrDSs", "getDS", "getNrRRAs", "getRRA"}
RRDDSMethods == {"getName", "getType", "getMin", "getMax"}
RRDRRAMethods ==
  {"getName", "getPdpPerRow", "getSecsPerRow", "getNrRows", "getNrDSs", "getEl", "getElFast"}
Methods(obj) ==
  CASE obj = "RRDFile" -> RRDFileMethods
    [] obj = "RRDDS" -> RRDDSMethods
    [] obj = "RRDRRA" -> RRDRRAMethods

\* one call site: the kind of object, the function invoked on it, the source
\* line, and whether the site is inside the loop over the archive's rows
Site(obj, method, line, rows) == [obj |-> obj, method |-> method, line |-> line, rows |-> rows]

\* the call sites of each conversion function in the order of evaluation (the
\* arguments of a call before the call), labels wanted, one DS in each list
rrdDS2FlotSeries ==
  <<Site("RRDFile", "getDS", 328, FALSE), Site("RRDFile", "getRRA", 329, FALSE),
    Site("RRDRRA", "getNrRows", 330, FALSE), Site("RRDFile", "getLastUpdate", 331, FALSE),
    Site("RRDRRA", "getStep", 332, FALSE),
    Site("RRDDS", "getIdx", 343, TRUE), Site("RRDRRA", "getEl", 343, TRUE),
    Site("RRDDS", "getName", 351, FALSE)>>

rrdRRA2FlotObj ==
  <<Site("RRDFile", "getRRA", 381, FALSE), Site("RRDRRA", "getNrRows", 382, FALSE),
    Site("RRDFile", "getLastUpdate", 383, FALSE), Site("RRDRRA", "getStep", 384, FALSE),
    Site("RRDFile", "getDS", 401, FALSE),
    Site("RRDDS", "getIdx", 406, TRUE), Site("RRDRRA", "getEl", 406, TRUE),
    Site("RRDDS", "getName", 417, FALSE)>>

rrdRRAStackFlotObj ==
  <<Site("RRDFile", "getRRA", 457, FALSE), Site("RRDRRA", "getNrRows", 458, FALSE),
    Site("RRDFile", "getLastUpdate", 459, FALSE), Site("RRDRRA", "getStep", 460, FALSE),
    Site("RRDFile", "getDS", 488, FALSE), Site("RRDDS", "getIdx", 489, FALSE),
    Site("RRDDS", "getName", 496, FALSE), Site("RRDRRA", "getEl", 507, TRUE),
    Site("RRDFile", "getDS", 541, FALSE),
    Site("RRDDS", "getIdx", 545, TRUE), Site("RRDRRA", "getEl", 545, TRUE),
    Site("RRDDS", "getName", 555, FALSE)>>

rrdRRAMultiStackFlotObj ==
  <<Site("RRDFile", "getRRA", 596, FALSE), Site("RRDRRA", "getNrRows", 597, FALSE),
    Site("RRDRRA", "getStep", 598, FALSE),
    Site("RRDFile", "getRRA", 611, FALSE), Site("RRDFile", "getLastUpdate", 613, FALSE),
    Site("RRDFile", "getDS", 655, TRUE), Site("RRDDS", "getIdx", 655, TRUE),
    Site("RRDRRA", "getEl", 655, TRUE)>>

ConvFns == {"rrdDS2FlotSeries", "rrdRRA2FlotObj", "rrdRRAStackFlotObj", "rrdRRAMultiStackFlotObj"}
Sites(fn) ==
  CASE fn = "rrdDS2FlotSeries" -> rrdDS2FlotSeries
    [] fn = "rrdRRA2FlotObj" -> rrdRRA2FlotObj
    [] fn = "rrdRRAStackFlotObj" -> rrdRRAStackFlotObj
    [] fn = "rrdRRAMultiStackFlotObj" -> rrdRRAMultiStackFlotObj

\* new RRDHeader(bf) followed by load_row_cnts(): the header of an RRDFile
\* whose construction succeeded
RRDHeader(bf) ==
  LET v == validate_rrd(bf)
      h0 == [NewHeader EXCEPT !.rrd_version = v.rrd_version, !.rrd_align = v.rrd_align]
  IN  load_row_cnts(bf, calc_idxs(load_header(bf, h0).hdr)).hdr

\* the conversions are handed an RRDFile over a written file
InitConv ==
  /\ rrd_data \in WrittenFiles
  /\ pc = "ready"
  /\ steps = <<"validate_rrd", "load_header", "calc_idxs", "load_row_cnts">>
  /\ hdr = RRDHeader(rrd_data)
  /\ thrown = NoException
  /\ dsView = NoDS
  /\ rraView = NoRRA
  /\ last = NoCall
  /\ conv = NoConv
  /\ sel = NewSel
  /\ ms = NoStack

\* a conversion function is called with ds_id and rra_idx
ConvCall ==
  /\ conv.status # "running"
  /\ \E fn \in ConvFns, ds_id \in -1..hdr.ds_cnt, rra_idx \in -1..hdr.rra_cnt :
       conv' = [fn |-> fn, ds_id |-> ds_id, rra_idx |-> rra_idx, at |-> 1,
                status |-> "running", kind |-> "", method |-> "", line |-> 0]
  /\ dsView' = NoDS
  /\ rraView' = NoRRA
  /\ UNCHANGED <<rrd_data, pc, steps, hdr, thrown, last, sel, ms>>

\* the conversion runs up to its next call site and invokes the function named
\* there, or reaches its return; invoking what the object does not provide is a
\* TypeError that leaves the conversion
ConvStep ==
  /\ conv.status = "running"
  /\ IF conv.at > Len(Sites(conv.fn))
       THEN conv' = [conv EXCEPT !.status = "returned"] /\ UNCHANGED <<dsView, rraView>>
       ELSE LET s == Sites(conv.fn)[conv.at]
                ds == getDS(hdr, conv.ds_id)
                rra == getRRA(rrd_data, hdr, conv.rra_idx)
                stop(status) ==
                  [conv EXCEPT !.status = status, !.kind = s.obj, !.method = s.method,
                               !.line = s.line]
            IN  IF s.rows /\ (rraView.row_cnt = 0)
                  THEN conv' = [conv EXCEPT !.at = @ + 1] /\ UNCHANGED <<dsView, rraView>>
                  ELSE IF s.method \notin Methods(s.obj)
                    THEN conv' = stop("TypeError") /\ UNCHANGED <<dsView, rraView>>
                    ELSE IF (s.method = "getDS") /\ ~ds.ok
                      THEN conv' = stop("RangeError") /\ UNCHANGED <<dsView, rraView>>
                      ELSE IF (s.method = "getRRA") /\ ~rra.ok
                        THEN conv' = stop("RangeError") /\ UNCHANGED <<dsView, rraView>>
                        ELSE /\ conv' = [conv EXCEPT !.at = @ + 1]
                             /\ dsView' = IF s.method = "getDS" THEN ds.view ELSE dsView
                             /\ rraView' = IF s.method = "getRRA" THEN rra.view ELSE rraView
  /\ UNCHANGED <<rrd_data, pc, steps, hdr, thrown, last, sel, ms>>

NextConv == ConvCall \/ ConvStep

SpecConv == InitConv /\ [][NextConv]_vars

\* ------------------------------------------------------------------------
\* rrdFlotSelection

\* largest timestamp of a Flot range and of a last update
MaxTs == 3

\* reset()
reset(o) == [o EXCEPT !.selection_min = Null, !.selection_max = Null]

\* setFromFlotRanges(ranges)
setFromFlotRanges(o, ranges) ==
  [o EXCEPT !.selection_min = ranges.xaxis.from, !.selection_max = ranges.xaxis.to]

\* getFlotRanges()
getFlotRanges(o) == [xaxis |-> [from |-> o.selection_min, to |-> o.selection_max]]

\* isSet testing the minimum for truth, not against null
isSet_Truthy(o) == (o.selection_min # Null) /\ (o.selection_min # <<0>>)

\* isSet()
isSet(o) == o.selection_min # Null

\* the ranges of a plotselected event: two numbers
FlotRanges ==
  {[xaxis |-> [from |-> <<f>>, to |-> <<t>>]] : f \in 0..MaxTs, t \in 0..MaxTs}

\* the reader is not in use
ReaderUnused ==
  /\ rrd_data = [magic |-> <<0, 0, 0, 0>>, version |-> <<0, 0, 0, 0, 0>>, sentinel |-> 0,
                 layout |-> 32, ds_cnt |-> 0, rra_cnt |-> 0, pdp_step |-> 0,
                 last_up |-> 0, row0 |-> 0, cur0 |-> 0]
  /\ pc = "new" /\ steps = <<>> /\ hdr = NewHeader /\ thrown = NoException
  /\ dsView = NoDS /\ rraView = NoRRA /\ last = NoCall
ReaderIdle == UNCHANGED <<rrd_data, pc, steps, hdr, thrown, dsView, rraView, last>>

InitSel == ReaderUnused /\ conv = NoConv /\ sel = NewSel /\ ms = NoStack

SelReset ==
  /\ sel' = [sel EXCEPT !.obj = reset(sel.obj), !.called = "reset"]
  /\ ReaderIdle /\ UNCHANGED <<conv, ms>>

SelSetFromFlotRanges ==
  /\ \E ranges \in FlotRanges :
       sel' = [sel EXCEPT !.obj = setFromFlotRanges(sel.obj, ranges),
                          !.called = "setFromFlotRanges", !.ranges = ranges]
  /\ ReaderIdle /\ UNCHANGED <<conv, ms>>

SelIsSet ==
  /\ sel' = [sel EXCEPT !.ret = [op |-> "isSet", val |-> isSet(sel.obj)]]
  /\ ReaderIdle /\ UNCHANGED <<conv, ms>>

SelGetFlotRanges ==
  /\ sel' = [sel EXCEPT !.ret = [op |-> "getFlotRanges", val |-> getFlotRanges(sel.obj)]]
  /\ ReaderIdle /\ UNCHANGED <<conv, ms>>

NextSel == SelReset \/ SelSetFromFlotRanges \/ SelIsSet \/ SelGetFlotRanges

SpecSel == InitSel /\ [][NextSel]_vars

\* ------------------------------------------------------------------------
\* rrdRRAMultiStackFlotObj over objects "of type RRDFile or equivalent": each
\* RRD answers getLastUpdate, and its archive getNrRows, getStep and getEl

\* most RRDs in rrd_files, and the largest archive step
MaxRrds == 2
MaxStep == 2

\* Math.round(a / step) for step > 0: halves go up
MathRound(a, step) == (2 * a + step) \div (2 * step)

\* the sample getEl(row, ds) of RRD id returns: a number, or undefined for an
\* unknown sample
StackEl(unknown, id, row) == IF row \in unknown THEN Null ELSE <<10 * (id + 1) + row>>

\* lines 596-645: the reference archive's rows and step, the last updates
\* (truncated to the step unless want_rounding is false), the range of
\* timestamps, one empty series per RRD; `el` is declared by var inside the
\* loops, so it is one variable of the function, undefined at entry
MsCall ==
  /\ ms.pc \in {"idle", "returned"}
  /\ \E n \in 1..MaxRrds, rows \in 0..MaxRows, step \in 1..MaxStep,
        want_rounding \in BOOLEAN, one_undefined_enough \in BOOLEAN,
        unknown \in {{}, {0}} :
       \E lu \in [1..n -> 0..MaxTs] :
         LET tmp_last_updates ==
               [k \in 1..n |-> IF want_rounding THEN lu[k] - (lu[k] % step) ELSE lu[k]]
             max_ts == CHOOSE t \in {tmp_last_updates[k] : k \in 1..n} :
                         \A k \in 1..n : tmp_last_updates[k] <= t
             first == CHOOSE t \in {tmp_last_updates[k] : k \in 1..n} :
                        \A k \in 1..n : t <= tmp_last_updates[k]
         IN  ms' = [pc |-> "ts", tmp_nr_ids |-> n, rows |-> rows, step |-> step,
                    one_undefined_enough |-> one_undefined_enough, unknown |-> unknown,
                    tmp_last_updates |-> tmp_last_updates,
                    min_ts |-> first - (rows - 1) * step, max_ts |-> max_ts,
                    ts |-> first - (rows - 1) * step, id |-> 0, el |-> Null,
                    rrd_vals |-> <<>>, all_undef |-> TRUE, all_def |-> TRUE,
                    tmp_flot_els |-> [k \in 1..n |-> <<>>],
                    row_delta |-> 0, out_el |-> <<>>]
  /\ ReaderIdle /\ UNCHANGED <<conv, sel>>

\* lines 647-650: the head of the loop over the timestamps
MsColumn ==
  /\ ms.pc = "ts" /\ ms.ts <= ms.max_ts
  /\ ms' = [ms EXCEPT !.pc = "id", !.id = 0, !.rrd_vals = <<>>,
                      !.all_undef = TRUE, !.all_def = TRUE]
  /\ ReaderIdle /\ UNCHANGED <<conv, sel>>

\* lines 651-664: one RRD of the column
MsInner ==
  /\ ms.pc = "id" /\ ms.id < ms.tmp_nr_ids
  /\ LET row_delta == MathRound(ms.tmp_last_updates[ms.id + 1] - ms.ts, ms.step)
         el == IF (row_delta >= 0) /\ (row_delta < ms.rows)
                 THEN StackEl(ms.unknown, ms.id, ms.rows - row_delta - 1)
                 ELSE ms.el
     IN  ms' = [ms EXCEPT !.row_delta = row_delta, !.el = el, !.id = @ + 1,
                          !.all_undef = IF el # Null THEN FALSE ELSE @,
                          !.all_def = IF el # Null THEN @ ELSE FALSE,
                          !.rrd_vals = Append(@, IF el # Null THEN el[1] ELSE 0)]
  /\ ReaderIdle /\ UNCHANGED <<conv, sel>>

\* lines 666-678: a column that is not all undefined, and all defined unless
\* one_undefined_enough is false, is summed up and pushed; ts += step
MsColumnEnd ==
  /\ ms.pc = "id" /\ ms.id = ms.tmp_nr_ids
  /\ LET sums[k \in 1..ms.tmp_nr_ids] ==
           IF k = 1 THEN ms.rrd_vals[1] ELSE ms.rrd_vals[k] + sums[k - 1]
         valid == ~ms.all_undef /\ (ms.all_def \/ ~ms.one_undefined_enough)
     IN  ms' = [ms EXCEPT !.pc = "ts", !.ts = @ + ms.step,
                          !.rrd_vals = IF valid THEN sums ELSE @,
                          !.tmp_flot_els =
                            IF valid
                              THEN [k \in 1..ms.tmp_nr_ids |->
                                      Append(@[k], <<ms.ts * 1000, sums[k]>>)]
                              ELSE @]
  /\ ReaderIdle /\ UNCHANGED <<conv, sel>>

\* lines 680-686: the series in reverse order
MsReturn ==
  /\ ms.pc = "ts" /\ ms.ts > ms.max_ts
  /\ ms' = [ms EXCEPT !.pc = "returned",
                      !.out_el = [k \in 1..ms.tmp_nr_ids |->
                                    ms.tmp_flot_els[ms.tmp_nr_ids - k + 1]]]
  /\ ReaderIdle /\ UNCHANGED <<conv, sel>>

InitStack == ReaderUnused /\ conv = NoConv /\ sel = NewSel /\ ms = NoStack

NextStack == MsCall \/ MsColumn \/ MsInner \/ MsColumnEnd \/ MsReturn

SpecStack == InitStack /\ [][NextStack]_vars

\* ------------------------------------------------------------------------
\* Checks of the model against the file image: on a file laid out for the
\* word size the reader detected, the reader recovers what was stored

ReaderRecoversImage ==
  (pc = "ready" /\ rrd_data.layout = hdr.rrd_align) =>
    /\ hdr.ds_cnt = rrd_data.ds_cnt /\ hdr.rra_cnt = rrd_data.rra_cnt
    /\ hdr.pdp_step = rrd_data.pdp_step
    /\ hdr.header_size = ImgRows(rrd_data)
    /\ \A i \in 0..(hdr.rra_cnt - 1) :
         hdr.rra_def_row_cnts[i + 1] = ImgRowCnt(rrd_data, i)
    /\ rraView.live => rraView.cur_row = rrd_data.cur0
    /\ last.op = "getLastUpdate" => last.val = <<rrd_data.last_up>>
    /\ last.op = "RRA.getPdpPerRow" => last.val[1] \in 1..hdr.rra_cnt
    /\ last.op = "DS.getName" => Len(last.val) = 3
    /\ last.op = "RRA.getName" => Len(last.val) = 7


\* ------------------------------------------------------------------------
\* Properties

ElOps == {"getEl", "getElFast"}
InRange(i, cnt) == (0 <= i) /\ (i < cnt)
\* the archive the held RRDRRA view was built for
ViewIs(i) == rraView.rra_def_idx = hdr.rra_def_idx + i * hdr.rra_def_el_size

\* C1: for every RRA view and every logical row in [0, rowCount), getEl and
\* getElFast read physical row (logicalRow + headRow + 1) mod rowCount, headRow
\* being the value read from the archive-pointer table when the view was built.
C1_PhysicalRowIsModular ==
  (rraView.live /\ last.op \in ElOps /\ last.ok) =>
    /\ \E i \in 0..(hdr.rra_cnt - 1) :
         ViewIs(i) /\ rraView.cur_row =
           getLongAt(rrd_data, hdr.rra_ptr_idx + i * hdr.rra_ptr_el_size)
    /\ last.real_row_idx = (last.a + rraView.cur_row + 1) % rraView.row_cnt

\* C2: getDS, getRRA, getEl and getElFast succeed exactly when every index is
\* inside [0, count); otherwise they throw a RangeError and have read nothing
\* from the byte source.
C2_BoundsCheckedBeforeRead ==
  /\ last.op = "getDS" => (last.ok <=> InRange(last.a, hdr.ds_cnt))
  /\ last.op = "getRRA" => (last.ok <=> InRange(last.a, hdr.rra_cnt))
  /\ last.op \in ElOps =>
       (last.ok <=> (InRange(last.a, rraView.row_cnt) /\ InRange(last.b, hdr.ds_cnt)))
  /\ (last.op \in ElOps \cup {"getDS", "getRRA"} /\ ~last.ok) =>
       (last.err.name = "RangeError" /\ last.reads = <<>>)

\* a data-source index equal to the count was refused on a valid row
C2_Witness ==
  /\ last.op = "getEl" /\ ~last.ok
  /\ InRange(last.a, rraView.row_cnt) /\ last.b = hdr.ds_cnt /\ hdr.ds_cnt > 0

\* C3: every out-of-range error carries the index that was out of range and
\* the bound [0, count) it violated: for getDS, for getRRA, and for the row
\* index and the data-source index of getEl/getElFast.
C3_ErrorNamesOffender ==
  /\ (last.op = "getDS" /\ ~last.ok) =>
       (last.err.value = last.a /\ last.err.lo = 0 /\ last.err.hi = hdr.ds_cnt)
  /\ (last.op = "getRRA" /\ ~last.ok) =>
       (last.err.value = last.a /\ last.err.lo = 0 /\ last.err.hi = hdr.rra_cnt)
  /\ (last.op \in ElOps /\ ~last.ok /\ ~InRange(last.a, rraView.row_cnt)) =>
       (last.err.what = "Row" /\ last.err.value = last.a
        /\ last.err.lo = 0 /\ last.err.hi = rraView.row_cnt)
  /\ (last.op \in ElOps /\ ~last.ok /\ InRange(last.a, rraView.row_cnt)) =>
       (last.err.what = "DS" /\ last.err.value = last.b
        /\ last.err.lo = 0 /\ last.err.hi = hdr.ds_cnt)

\* what the buffer holds, byte for byte
MagicMatches == rrd_data.magic = <<82, 82, 68, 0>>
VersionSupported ==
  rrd_data.version \in {<<48, 48, 48, 51, 0>>, <<48, 48, 48, 52, 0>>}
SentinelAt(idx) == getDoubleAt(rrd_data, idx) = Sentinel

\* C4: validation tests the magic, then the version, then the alignment, each
\* failure with an error of its own: a wrong magic gives "Wrong magic id."
\* whatever the version and sentinel; with the right magic the version error is
\* thrown exactly when the version is neither "0003" nor "0004"; a supported
\* version is recorded in rrd_version.
C4_MagicThenVersion ==
  (pc # "new") =>
    /\ ~MagicMatches =>
         (pc = "failed" /\ thrown.name = "Invalid RRD"
          /\ thrown.message = "Wrong magic id.")
    /\ MagicMatches =>
         ((thrown.message = "Unsupported RRD version") <=> ~VersionSupported)
    /\ (MagicMatches /\ ~VersionSupported) =>
         (pc = "failed" /\ thrown.version = hdr.rrd_version)
    /\ (MagicMatches /\ VersionSupported) =>
         (hdr.rrd_version = SubSeq(rrd_data.version, 1, 4)
          /\ thrown.message \in {"", "Unsupported platform."})

\* the magic was refused although the version and the sentinel were fine
C4_Witness ==
  /\ pc = "failed" /\ thrown.message = "Wrong magic id."
  /\ VersionSupported /\ SentinelAt(16)

\* C5: the alignment comes from the sentinel alone (at 12: 32 bit, at 16:
\* 64 bit, at neither: "Unsupported platform."), and the alignment alone picks
\* the offsets the counters are read at (20/24/28 or 24/32/40) and the top
\* header size (112 or 128).
C5_AlignmentFromSentinel ==
  /\ (pc # "new" /\ MagicMatches /\ VersionSupported) =>
       /\ (SentinelAt(12) /\ ~SentinelAt(16)) => (pc # "failed" /\ hdr.rrd_align = 32)
       /\ (SentinelAt(16) /\ ~SentinelAt(12)) => (pc # "failed" /\ hdr.rrd_align = 64)
       /\ (~SentinelAt(12) /\ ~SentinelAt(16)) =>
            (pc = "failed" /\ thrown.message = "Unsupported platform.")
  /\ (pc \in {"loaded", "indexed", "ready"}) =>
       /\ hdr.rrd_align \in {32, 64}
       /\ hdr.ds_cnt = getLongAt(rrd_data, IF hdr.rrd_align = 32 THEN 20 ELSE 24)
       /\ hdr.rra_cnt = getLongAt(rrd_data, IF hdr.rrd_align = 32 THEN 24 ELSE 32)
       /\ hdr.pdp_step = getLongAt(rrd_data, IF hdr.rrd_align = 32 THEN 28 ELSE 40)
       /\ hdr.top_header_size = (IF hdr.rrd_align = 32 THEN 112 ELSE 128)
  /\ (last.op = "load_header") =>
       last.reads = (IF hdr.rrd_align = 32 THEN <<20, 24, 28>> ELSE <<24, 32, 40>>)

\* a buffer laid out for 64 bit whose sentinel sits at 12: read as 32 bit
C5_Witness ==
  /\ pc = "loaded" /\ hdr.rrd_align = 32 /\ rrd_data.layout = 64
  /\ last.reads = <<20, 24, 28>>

\* C6: the seven section offsets follow one another, each the previous start
\* plus the previous element size times the previous element count, with the
\* sizes of the layout table; so they never decrease.
C6_OffsetsSequential ==
  (pc \in {"indexed", "ready"}) =>
    LET narrow == (hdr.rrd_align = 32)
    IN  /\ hdr.ds_def_idx = (IF narrow THEN 112 ELSE 128)
        /\ hdr.rra_def_idx = hdr.ds_def_idx + 120 * hdr.ds_cnt
        /\ hdr.live_head_idx =
             hdr.rra_def_idx + (IF narrow THEN 108 ELSE 120) * hdr.rra_cnt
        /\ hdr.pdp_prep_idx = hdr.live_head_idx + (IF narrow THEN 8 ELSE 16)
        /\ hdr.cdp_prep_idx = hdr.pdp_prep_idx + 112 * hdr.ds_cnt
        /\ hdr.rra_ptr_idx = hdr.cdp_prep_idx + 80 * (hdr.ds_cnt * hdr.rra_cnt)
        /\ hdr.header_size = hdr.rra_ptr_idx + (IF narrow THEN 4 ELSE 8) * hdr.rra_cnt
        /\ hdr.ds_def_idx <= hdr.rra_def_idx
        /\ hdr.rra_def_idx <= hdr.live_head_idx
        /\ hdr.live_head_idx <= hdr.pdp_prep_idx
        /\ hdr.pdp_prep_idx <= hdr.cdp_prep_idx
        /\ hdr.cdp_prep_idx <= hdr.rra_ptr_idx
        /\ hdr.rra_ptr_idx <= hdr.header_size

\* offsets computed for a file with several data sources and archives
C6_Witness ==
  /\ pc = "indexed" /\ hdr.rrd_align = 32 /\ hdr.ds_cnt >= 2 /\ hdr.rra_cnt >= 2
  /\ hdr.header_size > hdr.cdp_prep_idx

RECURSIVE SumBefore(_, _)
\* cnts[1] + ... + cnts[n]
SumBefore(cnts, n) == IF n = 0 THEN 0 ELSE SumBefore(cnts, n - 1) + cnts[n]

\* C7: after load_row_cnts both arrays have archiveCount entries; entry i of
\* the row counts is the value stored at rra_def_idx + i x record size +
\* row-count sub-offset, entry i of the sums is the sum of the row counts of
\* all archives before i.
C7_RowCountsAndSums ==
  (pc = "ready") =>
    LET narrow == (hdr.rrd_align = 32)
    IN  /\ Len(hdr.rra_def_row_cnts) = hdr.rra_cnt
        /\ Len(hdr.rra_def_row_cnt_sums) = hdr.rra_cnt
        /\ \A i \in 0..(hdr.rra_cnt - 1) :
             /\ hdr.rra_def_row_cnts[i + 1] =
                  getLongAt(rrd_data, hdr.rra_def_idx
                                        + i * (IF narrow THEN 108 ELSE 120)
                                        + (IF narrow THEN 20 ELSE 24))
             /\ hdr.rra_def_row_cnt_sums[i + 1] = SumBefore(hdr.rra_def_row_cnts, i)

\* two archives, the second one after a non-empty first
C7_Witness ==
  /\ pc = "ready" /\ hdr.rra_cnt = 2
  /\ hdr.rra_def_row_cnts[1] > 0 /\ hdr.rra_def_row_cnt_sums[2] = hdr.rra_def_row_cnts[1]

\* C8: for every archive and valid (row, ds), getEl reads the byte source at
\* header_size + rowsBefore x rowSize + rowSize x physicalRow + ds x 8, with
\* rowSize = dataSourceCount x 8 and physicalRow = (row + headRow + 1) mod
\* rowCount; getElFast reads at the same offset and fails in the same cases.
C8_SampleOffset ==
  /\ (rraView.live /\ last.op \in ElOps /\ last.ok) =>
       \E i \in 0..(hdr.rra_cnt - 1) :
         /\ ViewIs(i)
         /\ LET rowSize == hdr.ds_cnt * 8
                physicalRow == (last.a + rraView.cur_row + 1) % hdr.rra_def_row_cnts[i + 1]
            IN  last.reads = <<hdr.header_size + hdr.rra_def_row_cnt_sums[i + 1] * rowSize
                                 + rowSize * physicalRow + last.b * 8>>
  /\ rraView.live =>
       \A row \in -1..rraView.row_cnt, ds \in -1..rraView.ds_cnt :
         LET full == getEl(rrd_data, rraView, row, ds)
             fast == getElFast(rrd_data, rraView, row, ds)
         IN  full.ok = fast.ok /\ full.reads = fast.reads /\ full.err = fast.err

\* C9: once the RRDFile is constructed, no user call, successful or not,
\* changes a header field or the byte source, and a call that fails leaves the
\* views obtained before it as they were.
C9_ReadsLeaveHeaderAlone ==
  [][(pc = "ready") =>
       /\ hdr' = hdr /\ rrd_data' = rrd_data /\ pc' = "ready"
       /\ ~last'.ok => (dsView' = dsView /\ rraView' = rraView)]_vars

\* a lookup failed while the caller held a view of each kind
C9_Witness ==
  /\ pc = "ready" /\ dsView.live /\ rraView.live
  /\ last.op = "getRRA" /\ ~last.ok

Order == <<"validate_rrd", "load_header", "calc_idxs", "load_row_cnts">>
UserOps ==
  {"getStep", "getLastUpdate", "getNrDSs", "getNrRRAs", "getDS", "getRRA",
   "DS.getName", "DS.getType", "DS.getMin", "DS.getMax",
   "RRA.getName", "RRA.getPdpPerRow", "RRA.getSecsPerRow", "RRA.getNrRows",
   "RRA.getNrDSs", "getEl", "getElFast"}

\* C10: the initialisation functions run in the order validate_rrd,
\* load_header, calc_idxs, load_row_cnts; a DS view exists only after
\* calc_idxs, an RRA view only after load_row_cnts; when validate_rrd fails no
\* later step runs and no RRDFile call or view ever happens on that buffer.
C10_ConstructionOrder ==
  /\ Len(steps) <= Len(Order) /\ steps = SubSeq(Order, 1, Len(steps))
  /\ dsView.live => Len(steps) >= 3
  /\ rraView.live => Len(steps) = 4
  /\ last.op \in UserOps => (pc = "ready" /\ steps = Order)
  /\ (pc # "new" /\ ~(MagicMatches /\ VersionSupported
                      /\ (SentinelAt(12) \/ SentinelAt(16)))) =>
       /\ pc = "failed" /\ thrown # NoException
       /\ steps = <<"validate_rrd">>
       /\ ~dsView.live /\ ~rraView.live
       /\ hdr.ds_cnt = Undefined /\ hdr.header_size = Undefined

\* validation failed on the platform test and construction stopped there
C10_Witness ==
  /\ pc = "failed" /\ thrown.message = "Unsupported platform."
  /\ steps = <<"validate_rrd">>


\* C12: after any sequence of reset() and setFromFlotRanges(ranges) calls,
\* isSet() is true exactly when the most recent of them was setFromFlotRanges
\* (false on a fresh object and after reset), and then getFlotRanges() returns
\* the xaxis from/to of that call.
C12_IsSetIffLastCallSet ==
  /\ isSet(sel.obj) <=> (sel.called = "setFromFlotRanges")
  /\ isSet(sel.obj) => (getFlotRanges(sel.obj) = sel.ranges)
  /\ sel.called \in {"new", "reset"} =>
       getFlotRanges(sel.obj) = [xaxis |-> [from |-> Null, to |-> Null]]

\* a selection starting at timestamp 0 was set after a reset, and isSet() asked
C12_Witness ==
  /\ sel.called = "setFromFlotRanges" /\ sel.ranges.xaxis.from = <<0>>
  /\ sel.ret.op = "isSet" /\ sel.ret.val = TRUE


\* the archives of the file, and the view getRRA returns for archive a
Archives == 0..(hdr.rra_cnt - 1)
ViewOf(a) == getRRA(rrd_data, hdr, a).view
RowsOf(a) == 0..(hdr.rra_def_row_cnts[a + 1] - 1)

\* every archive's stored head row is smaller than its row count
HeadRowsInRange ==
  \A a \in Archives :
    LET cur_row == getLongAt(rrd_data, hdr.rra_ptr_idx + a * hdr.rra_ptr_el_size)
    IN  (0 <= cur_row) /\ (cur_row < hdr.rra_def_row_cnts[a + 1])

\* the (archive, logical row, ds) triples of the file and the offset read for one
Triples ==
  UNION {{<<a, row, ds>> : row \in RowsOf(a), ds \in 0..(hdr.ds_cnt - 1)} : a \in Archives}
OffsetOf(t) == getEl(rrd_data, ViewOf(t[1]), t[2], t[3]).reads[1]

\* C13: when every archive's stored head row is smaller than its row count,
\* the logical-to-physical row map of each archive is a bijection on
\* 0..rowCount-1, and every sample offset of archive a lies between
\* header_size + prefixSum[a] x rowSize and
\* header_size + (prefixSum[a] + rowCount[a]) x rowSize - 8; so the offsets of
\* distinct (archive, row, ds) triples are distinct, the reads of two archives
\* do not overlap, and no sample read falls inside the header.
C13_ArchivesDisjoint ==
  LET rowSize == hdr.ds_cnt * 8
      lo(a) == hdr.header_size + SumBefore(hdr.rra_def_row_cnts, a) * rowSize
      hi(a) == hdr.header_size
                 + (SumBefore(hdr.rra_def_row_cnts, a) + hdr.rra_def_row_cnts[a + 1]) * rowSize
                 - 8
  IN  \* the whole map, on the state the constructor leaves: no user call
      \* changes the header or the bytes afterwards
      /\ (pc = "ready" /\ last.op = "load_row_cnts" /\ HeadRowsInRange) =>
           /\ \A a \in Archives :
                \/ hdr.ds_cnt = 0
                \/ {getEl(rrd_data, ViewOf(a), row, 0).real_row_idx : row \in RowsOf(a)}
                     = RowsOf(a)
           /\ \A t \in Triples :
                /\ getEl(rrd_data, ViewOf(t[1]), t[2], t[3]).ok
                /\ lo(t[1]) <= OffsetOf(t) /\ OffsetOf(t) <= hi(t[1])
                /\ OffsetOf(t) >= hdr.header_size
                /\ (OffsetOf(t) - hdr.header_size) % 8 = 0
                /\ getElFast(rrd_data, ViewOf(t[1]), t[2], t[3]).reads = <<OffsetOf(t)>>
           /\ Cardinality({OffsetOf(t) : t \in Triples}) = Cardinality(Triples)
           /\ \A a \in Archives, b \in Archives : (a < b) => (hi(a) < lo(b))
      \* each sample read by a call
      /\ (pc = "ready" /\ HeadRowsInRange /\ rraView.live /\ last.op \in ElOps /\ last.ok) =>
           \E a \in Archives :
             /\ ViewIs(a)
             /\ last.real_row_idx \in RowsOf(a)
             /\ lo(a) <= last.reads[1] /\ last.reads[1] <= hi(a)
             /\ last.reads[1] >= hdr.header_size

\* a sample of the second of two archives with two data sources was read,
\* from a logical row that wraps around the end of the archive
C13_Witness ==
  /\ pc = "ready" /\ HeadRowsInRange
  /\ hdr.rra_cnt = 2 /\ hdr.ds_cnt = 2 /\ hdr.rra_def_row_cnts[1] > 0
  /\ rraView.live /\ ViewIs(1)
  /\ last.op = "getEl" /\ last.ok /\ last.b = 1 /\ last.real_row_idx < last.a

\* C11: a conversion function called on a valid RRDFile with in-range indices
\* invokes only operations that the RRDFile, the DS view and the RRA view
\* provide, so it does not leave with a missing-operation failure.
C11_ConversionsUseReadApi ==
  (InRange(conv.ds_id, hdr.ds_cnt) /\ InRange(conv.rra_idx, hdr.rra_cnt))
    => conv.status # "TypeError"


\* C14: in rrdRRAMultiStackFlotObj, an RRD whose row for the timestamp is out
\* of range (row_delta < 0 or row_delta >= rows) has no value there: it adds
\* 0 to the stack and marks the column as not all defined, whatever was read
\* for other RRDs or at earlier timestamps.
C14_OutOfRangeHasNoValue ==
  (ms.pc = "id" /\ ms.id > 0 /\ ~InRange(ms.row_delta, ms.rows)) =>
    (ms.rrd_vals[ms.id] = 0 /\ ~ms.all_def)

====
